---- MODULE Spec2Model ----
(***************************************************************************)
(* Model of backend/app/notify/email.go: Email.Send, the two message       *)
(* builders, Email.sendMessage and emailClient.Create, together with the   *)
(* retry wrapper repeater.NewDefault(5, 250ms).Do that Send calls.         *)
(*                                                                         *)
(* Every Send call c has its own request, context, message, retry loop     *)
(* and delivery attempt; the Email object (emailObj) is shared.            *)
(***************************************************************************)
EXTENDS Integers, Sequences, FiniteSets, TLC

\* ------------------------------------------------------------------ bounds
NumCalls == 2
Calls == 1..NumCalls

\* ------------------------------------------------------- program constants
\* mutants of Repeats: one attempt more, one attempt fewer
Repeats_Six == 5 + 1

\* repeater.NewDefault(5, time.Millisecond*250): number of attempts
Repeats == 5

defaultVerificationSubject == "Email verification"

\* the fragment prefix of a comment permalink
uiNav == "uiNav"

\* two concurrent calls: the failures of protocol calls one behaviour has
MaxFaults == 1

\* ---------------------------------------------------------- input domains
\* the recipients of two concurrent calls
ConcEmails == {"a@x", "b@x"}
Emails == {"", "a@x"}
Tokens == {"", "tok"}
CommentIDs == {"", "c1"}
UserIDs == {"u1", "u2"}
PostTitles == {""}
Credentials == {<<"", "">>, <<"user", "pw">>}

\* ------------------------------------------------------------------ errors
Nil == [kind |-> "nil", attempt |-> 0]

\* errors.Errorf("sending message to %q aborted due to canceled context")
ErrAborted == [kind |-> "aborted due to canceled context", attempt |-> 0]

\* ctx.Err() of a cancelled context
ErrCtx == [kind |-> "context canceled", attempt |-> 0]

\* an error produced while building a message
ErrBuild(what) == [kind |-> what, attempt |-> 0]

\* an error produced by delivery attempt n
ErrAttempt(what, n) == [kind |-> what, attempt |-> n]

\* the kinds of error each protocol step of an attempt produces
StepKinds ==
    [Create |-> {"tls dial", "timeout", "client", "auth"},
     Auth |-> {"auth"}, Mail |-> {"mail"}, Rcpt |-> {"rcpt"},
     Data |-> {"data"}, Write |-> {"write"}]

TransportSteps == DOMAIN StepKinds

\* ----------------------------------------------------------- the requests
RequestsFor(emails) ==
    { [Email |-> em,
       Verification |-> [User |-> "user", Token |-> tk, SiteID |-> "site"],
       Comment |-> [ID |-> cid, ParentID |-> "p1",
                    User |-> [ID |-> "u1", Name |-> "author"],
                    Text |-> "text", PostTitle |-> pt,
                    Locator |-> [SiteID |-> "site", URL |-> "http://post"]],
       parent |-> [ID |-> "p1", User |-> [ID |-> pu, Name |-> "parent"],
                   Text |-> "ptext"],
       ForAdmin |-> fa] :
      em \in emails, tk \in Tokens, cid \in CommentIDs, pu \in UserIDs,
      pt \in PostTitles, fa \in BOOLEAN }

Requests == RequestsFor(Emails)

\* the request of a call that is never made
NoRequest == CHOOSE r \in Requests : r.Email = "" /\ r.Verification.Token = ""
                 /\ r.Comment.ID = "" /\ ~r.ForAdmin /\ r.parent.User.ID = "u1"

\* Email objects as NewEmail returns them
EmailObjects ==
    { [From |-> "from@site",
       VerificationSubject |-> defaultVerificationSubject,
       SubscribeURL |-> "http://sub",
       UnsubscribeURL |-> "http://unsub",
       smtp |-> TRUE,
       TLS |-> tls, Username |-> cr[1], Password |-> cr[2]] :
      tls \in BOOLEAN, cr \in Credentials }

\* ------------------------------------------------------- message building
\* var msg string: the zero value
EmptyMsg == [headers |-> <<>>, body |-> <<>>]

\* quotedprintable.NewWriter(buff).Write(body); Close()
QuotedPrintable(body) == <<"quoted-printable", body>>

\* e.TokenGenFn(userID, email, site)
TokenGenFn(userID, email, site) == <<"tkn", userID, email, site>>

addHeader(msg, h, v) == Append(msg, <<h, v>>)

buildMessage(e, subject, body, to, contentType, unsubscribeLink) ==
    LET m1 == addHeader(<<>>, "From", <<e.From>>)
        m2 == addHeader(m1, "To", <<to>>)
        m3 == addHeader(m2, "Subject", subject)
        m4 == addHeader(m3, "Content-Transfer-Encoding", <<"quoted-printable">>)
        m5 == IF contentType # ""
              THEN addHeader(addHeader(m4, "MIME-version", <<"1.0">>),
                             "Content-Type",
                             <<contentType, "; charset=\"UTF-8\"">>)
              ELSE m4
        m6 == IF unsubscribeLink # <<>>
              THEN addHeader(addHeader(m5, "List-Unsubscribe-Post",
                                       <<"List-Unsubscribe=One-Click">>),
                             "List-Unsubscribe",
                             <<"<">> \o unsubscribeLink \o <<">">>)
              ELSE m5
        m7 == addHeader(m6, "Date", <<"now">>)
    IN  [headers |-> m7, body |-> QuotedPrintable(body)]

\* result: [msg, err]; tmplFail says whether verificationTmpl.Execute fails
buildVerificationMessage(e, user, email, token, site, tmplFail) ==
    LET subject == <<e.VerificationSubject>>
        data == [User |-> user, Token |-> token, Email |-> email,
                 Site |-> site, SubscribeURL |-> e.SubscribeURL]
    IN  IF tmplFail
        THEN [msg |-> EmptyMsg, err |-> ErrBuild("verification template")]
        ELSE [msg |-> buildMessage(e, subject, <<"verificationTmpl", data>>,
                                   email, "text/html", <<>>),
              err |-> Nil]

\* a variant of buildReplyMessage that keeps the link for admins
buildReplyMessage_AdminLink(e, r, forAdmin, tokenFail, tmplFail) ==
    LET subject0 == IF forAdmin THEN "New comment to your site"
                                ELSE "New reply to your comment"
        subject == IF r.Comment.PostTitle # ""
                   THEN <<subject0, " for \"", r.Comment.PostTitle, "\"">>
                   ELSE <<subject0>>
        token == TokenGenFn(r.parent.User.ID, r.Email, r.Comment.Locator.SiteID)
        unsubscribeLink ==
            IF FALSE THEN <<>>
            ELSE <<e.UnsubscribeURL, "?site=", r.Comment.Locator.SiteID,
                   "&tkn=", token>>
        commentUrlPrefix == <<r.Comment.Locator.URL, uiNav>>
        hasParent == r.Comment.ParentID # ""
        tmplData ==
            [UserName |-> r.Comment.User.Name,
             CommentText |-> r.Comment.Text,
             CommentLink |-> Append(commentUrlPrefix, r.Comment.ID),
             PostTitle |-> r.Comment.PostTitle,
             Email |-> r.Email,
             UnsubscribeLink |-> unsubscribeLink,
             ForAdmin |-> forAdmin,
             ParentUserName |-> IF hasParent THEN r.parent.User.Name ELSE "",
             ParentCommentText |-> IF hasParent THEN r.parent.Text ELSE "",
             ParentCommentLink |-> IF hasParent
                                   THEN Append(commentUrlPrefix, r.parent.ID)
                                   ELSE <<>>]
    IN  IF tokenFail
        THEN [msg |-> EmptyMsg, err |-> ErrBuild("unsubscribe token")]
        ELSE IF tmplFail
        THEN [msg |-> EmptyMsg, err |-> ErrBuild("reply template")]
        ELSE [msg |-> buildMessage(e, subject, <<"replyTmpl", tmplData>>,
                                   r.Email, "text/html", unsubscribeLink),
              err |-> Nil]

\* result: [msg, err]; tokenFail says whether TokenGenFn fails, tmplFail
\* whether replyTmpl.Execute fails
buildReplyMessage(e, r, forAdmin, tokenFail, tmplFail) ==
    LET subject0 == IF forAdmin THEN "New comment to your site"
                                ELSE "New reply to your comment"
        subject == IF r.Comment.PostTitle # ""
                   THEN <<subject0, " for \"", r.Comment.PostTitle, "\"">>
                   ELSE <<subject0>>
        token == TokenGenFn(r.parent.User.ID, r.Email, r.Comment.Locator.SiteID)
        unsubscribeLink ==
            IF forAdmin THEN <<>>
            ELSE <<e.UnsubscribeURL, "?site=", r.Comment.Locator.SiteID,
                   "&tkn=", token>>
        commentUrlPrefix == <<r.Comment.Locator.URL, uiNav>>
        hasParent == r.Comment.ParentID # ""
        tmplData ==
            [UserName |-> r.Comment.User.Name,
             CommentText |-> r.Comment.Text,
             CommentLink |-> Append(commentUrlPrefix, r.Comment.ID),
             PostTitle |-> r.Comment.PostTitle,
             Email |-> r.Email,
             UnsubscribeLink |-> unsubscribeLink,
             ForAdmin |-> forAdmin,
             ParentUserName |-> IF hasParent THEN r.parent.User.Name ELSE "",
             ParentCommentText |-> IF hasParent THEN r.parent.Text ELSE "",
             ParentCommentLink |-> IF hasParent
                                   THEN Append(commentUrlPrefix, r.parent.ID)
                                   ELSE <<>>]
    IN  IF tokenFail
        THEN [msg |-> EmptyMsg, err |-> ErrBuild("unsubscribe token")]
        ELSE IF tmplFail
        THEN [msg |-> EmptyMsg, err |-> ErrBuild("reply template")]
        ELSE [msg |-> buildMessage(e, subject, <<"replyTmpl", tmplData>>,
                                   r.Email, "text/html", unsubscribeLink),
              err |-> Nil]

\* ------------------------------------------------------------------- state
VARIABLES
    emailObj,    \* the shared Email object (EmailParams, SmtpParams, smtp)
    nextId,      \* identity of the next transport session the network opens
    req,         \* req[c]: the Request of call c
    cancelled,   \* cancelled[c]: ctx.Done() of call c is closed
    ctxAtCall,   \* ctxAtCall[c]: what the initial check of ctx saw
    pc,          \* pc[c]: position of Send
    msg,         \* msg[c]: the local msg of Send
    result,      \* result[c]: the error Send returned
    builds,      \* builds[c]: the builders Send invoked, in order
    tokenCalls,  \* tokenCalls[c]: invocations of TokenGenFn
    tpc,         \* tpc[c]: position of the retry wrapper's tick source
    ti,          \* ti[c]: loop counter of the tick source
    lastErr,     \* lastErr[c]: err of the retry wrapper's loop
    attempts,    \* attempts[c]: delivery attempts started
    succAt,      \* succAt[c]: the attempt that returned nil, 0 if none
    apc,         \* apc[c]: position of sendMessage
    aerr,        \* aerr[c]: the value sendMessage returns
    log,         \* log[c]: protocol calls of the current attempt
    sess,        \* sess[c]: the transport session of the current attempt
    creates,     \* creates[c]: calls of smtp.Create
    wire         \* wire[c]: senders, recipients and bodies put on the wire

vars == <<emailObj, nextId, req, cancelled, ctxAtCall, pc, msg, result,
          builds, tokenCalls, tpc, ti, lastErr, attempts, succAt, apc, aerr,
          log, sess, creates, wire>>

sendVars == <<msg, result, builds, tokenCalls>>
retryVars == <<tpc, ti, lastErr, attempts, succAt>>
attemptVars == <<apc, aerr, log, sess, creates, wire, nextId>>

NoSession == [id |-> 0, state |-> "none"]
NoWire == [froms |-> {}, rcpts |-> {}, bodies |-> {}]

\* the calls in A are about to be made with requests reqs, the others
\* never are
InitWith(A, reqs) ==
    /\ emailObj \in EmailObjects
    /\ nextId = 1
    /\ req \in reqs
    /\ \A c \in Calls \ A : req[c] = NoRequest
    /\ cancelled \in [Calls -> BOOLEAN]
    /\ \A c \in Calls \ A : ~cancelled[c]
    /\ ctxAtCall = [c \in Calls |-> "unchecked"]
    /\ pc = [c \in Calls |-> IF c \in A THEN "start" ELSE "idle"]
    /\ msg = [c \in Calls |-> EmptyMsg]
    /\ result = [c \in Calls |-> Nil]
    /\ builds = [c \in Calls |-> <<>>]
    /\ tokenCalls = [c \in Calls |-> 0]
    /\ tpc = [c \in Calls |-> "none"]
    /\ ti = [c \in Calls |-> 0]
    /\ lastErr = [c \in Calls |-> Nil]
    /\ attempts = [c \in Calls |-> 0]
    /\ succAt = [c \in Calls |-> 0]
    /\ apc = [c \in Calls |-> "none"]
    /\ aerr = [c \in Calls |-> Nil]
    /\ log = [c \in Calls |-> <<>>]
    /\ sess = [c \in Calls |-> NoSession]
    /\ creates = [c \in Calls |-> 0]
    /\ wire = [c \in Calls |-> NoWire]

InitFor(A) == InitWith(A, [Calls -> Requests])

Init == InitFor({1})

\* ------------------------------------------------------------ Email.Send
\* the caller's context is cancelled
Cancel(c) ==
    /\ pc[c] \notin {"idle", "done"}
    /\ ~cancelled[c]
    /\ cancelled' = [cancelled EXCEPT ![c] = TRUE]
    /\ UNCHANGED <<emailObj, req, ctxAtCall, pc>>
    /\ UNCHANGED <<sendVars, retryVars, attemptVars>>

\* Send returns err
Return(c, err) ==
    /\ pc' = [pc EXCEPT ![c] = "done"]
    /\ result' = [result EXCEPT ![c] = err]

\* mutant of SendCheck: the context is checked before the recipient
SendCheck_CtxFirst(c) ==
    /\ pc[c] = "start"
    /\ IF cancelled[c]
       THEN /\ Return(c, ErrAborted)
            /\ ctxAtCall' = [ctxAtCall EXCEPT ![c] = "cancelled"]
       ELSE IF req[c].Email = ""
       THEN /\ Return(c, Nil)
            /\ UNCHANGED ctxAtCall
       ELSE /\ ctxAtCall' = [ctxAtCall EXCEPT ![c] = "live"]
            /\ pc' = [pc EXCEPT ![c] = "build"]
            /\ UNCHANGED result
    /\ UNCHANGED <<emailObj, req, cancelled, msg, builds, tokenCalls>>
    /\ UNCHANGED <<retryVars, attemptVars>>

\* mutant of SendCheck: the context is not checked before building
SendCheck_NoCtxCheck(c) ==
    /\ pc[c] = "start"
    /\ IF req[c].Email = ""
       THEN /\ Return(c, Nil)
            /\ UNCHANGED ctxAtCall
       ELSE /\ ctxAtCall' = [ctxAtCall EXCEPT ![c] =
                                IF cancelled[c] THEN "cancelled" ELSE "live"]
            /\ pc' = [pc EXCEPT ![c] = "build"]
            /\ UNCHANGED result
    /\ UNCHANGED <<emailObj, req, cancelled, msg, builds, tokenCalls>>
    /\ UNCHANGED <<retryVars, attemptVars>>

\* if req.Email == "" { return nil }; select { case <-ctx.Done(): return ... }
SendCheck(c) ==
    /\ pc[c] = "start"
    /\ IF req[c].Email = ""
       THEN /\ Return(c, Nil)
            /\ UNCHANGED ctxAtCall
       ELSE /\ ctxAtCall' = [ctxAtCall EXCEPT ![c] =
                                IF cancelled[c] THEN "cancelled" ELSE "live"]
            /\ IF cancelled[c]
               THEN Return(c, ErrAborted)
               ELSE /\ pc' = [pc EXCEPT ![c] = "build"]
                    /\ UNCHANGED result
    /\ UNCHANGED <<emailObj, req, cancelled, msg, builds, tokenCalls>>
    /\ UNCHANGED <<retryVars, attemptVars>>

\* mutant of selfReply: the rule ignores ForAdmin
selfReply_IgnoreAdmin(r) ==
    r.parent.User.ID = r.Comment.User.ID

\* req.parent.User.ID == req.Comment.User.ID && !req.ForAdmin
selfReply(r) ==
    r.parent.User.ID = r.Comment.User.ID /\ ~r.ForAdmin

\* mutant of buildStep: the error of the reply builder is not returned
buildStep_IgnoreReplyErr(e, r, vFail, tokenFail, rFail) ==
    LET hasV == r.Verification.Token # ""
        v == buildVerificationMessage(e, r.Verification.User, r.Email,
                                      r.Verification.Token,
                                      r.Verification.SiteID, vFail)
        msg1 == IF hasV THEN v.msg ELSE EmptyMsg
        builds1 == IF hasV THEN <<"verification">> ELSE <<>>
        rp == buildReplyMessage(e, r, r.ForAdmin, tokenFail, rFail)
    IN  IF hasV /\ v.err # Nil
        THEN [msg |-> msg1, err |-> v.err, ret |-> TRUE,
              builds |-> builds1, tokens |-> 0]
        ELSE IF r.Comment.ID = ""
        THEN [msg |-> msg1, err |-> Nil, ret |-> FALSE,
              builds |-> builds1, tokens |-> 0]
        ELSE IF selfReply(r)
        THEN [msg |-> msg1, err |-> Nil, ret |-> TRUE,
              builds |-> builds1, tokens |-> 0]
        ELSE [msg |-> rp.msg, err |-> Nil, ret |-> FALSE,
              builds |-> Append(builds1, "reply"), tokens |-> 1]

\* the outcome of the two "if" blocks that build msg:
\* [msg, err, ret (Send returns here), builds, tokens]
buildStep(e, r, vFail, tokenFail, rFail) ==
    LET hasV == r.Verification.Token # ""
        v == buildVerificationMessage(e, r.Verification.User, r.Email,
                                      r.Verification.Token,
                                      r.Verification.SiteID, vFail)
        msg1 == IF hasV THEN v.msg ELSE EmptyMsg
        builds1 == IF hasV THEN <<"verification">> ELSE <<>>
        rp == buildReplyMessage(e, r, r.ForAdmin, tokenFail, rFail)
    IN  IF hasV /\ v.err # Nil
        THEN [msg |-> msg1, err |-> v.err, ret |-> TRUE,
              builds |-> builds1, tokens |-> 0]
        ELSE IF r.Comment.ID = ""
        THEN [msg |-> msg1, err |-> Nil, ret |-> FALSE,
              builds |-> builds1, tokens |-> 0]
        ELSE IF selfReply(r)
        THEN [msg |-> msg1, err |-> Nil, ret |-> TRUE,
              builds |-> builds1, tokens |-> 0]
        ELSE [msg |-> rp.msg, err |-> rp.err, ret |-> rp.err # Nil,
              builds |-> Append(builds1, "reply"), tokens |-> 1]

SendBuild(c) ==
    /\ pc[c] = "build"
    /\ \E vFail \in BOOLEAN, tokenFail \in BOOLEAN, rFail \in BOOLEAN :
         LET b == buildStep(emailObj, req[c], vFail, tokenFail, rFail)
         IN  /\ msg' = [msg EXCEPT ![c] = b.msg]
             /\ builds' = [builds EXCEPT ![c] = b.builds]
             /\ tokenCalls' = [tokenCalls EXCEPT ![c] = @ + b.tokens]
             /\ IF b.ret
                THEN Return(c, b.err)
                ELSE /\ pc' = [pc EXCEPT ![c] = "send"]
                     /\ UNCHANGED result
    /\ UNCHANGED <<emailObj, req, cancelled, ctxAtCall>>
    /\ UNCHANGED <<retryVars, attemptVars>>

\* ------------------------------------------------- the retry wrapper
\* repeater.NewDefault(5, 250ms).Do(ctx, fun): strategy.FixedDelay.Start
\* starts the tick source, a goroutine that offers a tick on an unbuffered
\* channel, waits for the delay and, after Repeats ticks or on ctx.Done(),
\* closes the channel; Do selects on ctx.Done() and on the channel, calls
\* fun for each tick and returns its own err when the channel is closed.
DoStart(c) ==
    /\ pc[c] = "send"
    /\ pc' = [pc EXCEPT ![c] = "select"]
    /\ tpc' = [tpc EXCEPT ![c] = "offer"]
    /\ ti' = [ti EXCEPT ![c] = 0]
    /\ lastErr' = [lastErr EXCEPT ![c] = Nil]
    /\ UNCHANGED <<emailObj, req, cancelled, ctxAtCall, attempts, succAt>>
    /\ UNCHANGED <<sendVars, attemptVars>>

\* case <-ch: a tick is received and fun() is called.  The two sides meet
\* on an unbuffered channel, so one of them is parked in its select when the
\* other arrives, and a parked select that also waits on ctx.Done() is
\* woken by the cancellation: no tick is handed over once ctx is done.
DoTick(c) ==
    /\ pc[c] = "select"
    /\ tpc[c] = "offer"
    /\ ~cancelled[c]
    /\ pc' = [pc EXCEPT ![c] = "attempt"]
    /\ tpc' = [tpc EXCEPT ![c] = "delay"]
    /\ attempts' = [attempts EXCEPT ![c] = @ + 1]
    /\ apc' = [apc EXCEPT ![c] = "create"]
    /\ aerr' = [aerr EXCEPT ![c] = Nil]
    /\ log' = [log EXCEPT ![c] = <<>>]
    /\ sess' = [sess EXCEPT ![c] = NoSession]
    /\ UNCHANGED <<emailObj, req, cancelled, ctxAtCall, ti, lastErr, succAt,
                   creates, wire, nextId>>
    /\ UNCHANGED sendVars

\* case <-ctx.Done(): return ctx.Err()
DoCtxDone(c) ==
    /\ pc[c] = "select"
    /\ cancelled[c]
    /\ Return(c, ErrCtx)
    /\ UNCHANGED <<emailObj, req, cancelled, ctxAtCall, msg, builds,
                   tokenCalls>>
    /\ UNCHANGED <<retryVars, attemptVars>>

\* case _, ok := <-ch: if !ok { return err }
DoChClosed(c) ==
    /\ pc[c] = "select"
    /\ tpc[c] = "closed"
    /\ Return(c, lastErr[c])
    /\ UNCHANGED <<emailObj, req, cancelled, ctxAtCall, msg, builds,
                   tokenCalls>>
    /\ UNCHANGED <<retryVars, attemptVars>>

\* if err = fun(); err == nil { return nil }, else back to the select
DoAfterFun(c) ==
    /\ pc[c] = "attempt"
    /\ apc[c] = "return"
    /\ lastErr' = [lastErr EXCEPT ![c] = aerr[c]]
    /\ IF aerr[c] = Nil
       THEN /\ Return(c, Nil)
            /\ succAt' = [succAt EXCEPT ![c] = attempts[c]]
       ELSE /\ pc' = [pc EXCEPT ![c] = "select"]
            /\ UNCHANGED <<result, succAt>>
    /\ UNCHANGED <<emailObj, req, cancelled, ctxAtCall, msg, builds,
                   tokenCalls, tpc, ti, attempts>>
    /\ UNCHANGED attemptVars

\* the tick source: case <-time.After(s.Delay), then i++ and the loop test
TickerDelay(c) ==
    /\ tpc[c] = "delay"
    /\ ti' = [ti EXCEPT ![c] = @ + 1]
    /\ tpc' = [tpc EXCEPT ![c] =
                  IF ti[c] + 1 < Repeats THEN "offer" ELSE "closed"]
    /\ UNCHANGED <<emailObj, req, cancelled, ctxAtCall, pc, lastErr,
                   attempts, succAt>>
    /\ UNCHANGED <<sendVars, attemptVars>>

\* the tick source: case <-ctx.Done(): return, and the deferred close(ch);
\* its context is the caller's, also cancelled by Do's deferred cancelFunc
TickerCancel(c) ==
    /\ tpc[c] \in {"offer", "delay"}
    /\ cancelled[c] \/ pc[c] = "done"
    /\ tpc' = [tpc EXCEPT ![c] = "closed"]
    /\ UNCHANGED <<emailObj, req, cancelled, ctxAtCall, pc, ti, lastErr,
                   attempts, succAt>>
    /\ UNCHANGED <<sendVars, attemptVars>>

\* --------------------------------------------------- emailClient.Create
\* authenticate: the outcomes [auth (Auth was called), ok]
authenticate(params) ==
    IF params.Username = "" \/ params.Password = ""
    THEN {[auth |-> FALSE, ok |-> TRUE]}
    ELSE {[auth |-> TRUE, ok |-> ok] : ok \in BOOLEAN}

\* the outcomes of Create(params): client (a non-nil client is returned),
\* err (the kind of the error, "nil" if none), auth (Auth was called) and
\* released (smtp.Client.Auth itself sent QUIT before returning its error,
\* which net/smtp does on some of its failure paths and not on others)
Create(params) ==
    LET dialErr == IF params.TLS THEN "tls dial" ELSE "timeout"
        auths == authenticate(params)
    IN  {[client |-> FALSE, err |-> dialErr, auth |-> FALSE,
          released |-> FALSE],
         [client |-> FALSE, err |-> "client", auth |-> FALSE,
          released |-> FALSE]}
        \cup
        {[client |-> TRUE, err |-> "nil", auth |-> a.auth,
          released |-> FALSE] : a \in {x \in auths : x.ok}}
        \cup
        {[client |-> TRUE, err |-> "auth", auth |-> TRUE,
          released |-> rel[2]] :
           rel \in {x \in auths : ~x.ok} \X BOOLEAN}

\* ---------------------------------------------------- Email.sendMessage
\* emailMessage{from: e.From, to: req.Email, message: msg}
emailMessage(c) ==
    [from |-> emailObj.From, to |-> req[c].Email, message |-> msg[c]]

Call(op, ok) == [op |-> op, ok |-> ok]

\* sendMessage returns err at position next of its deferred functions
Fail(c, what, next) ==
    /\ aerr' = [aerr EXCEPT ![c] = ErrAttempt(what, attempts[c])]
    /\ apc' = [apc EXCEPT ![c] = next]

attemptFrame == <<emailObj, req, cancelled, ctxAtCall, pc>>

\* a variant of AttemptCreate that hands out one pooled session
AttemptCreate_Pooled(c) ==
    /\ pc[c] = "attempt"
    /\ apc[c] = "create"
    /\ IF ~emailObj.smtp
       THEN /\ Fail(c, "no smtp client", "return")
            /\ UNCHANGED <<log, sess, creates, nextId>>
       ELSE \E o \in Create(emailObj) :
              /\ creates' = [creates EXCEPT ![c] = @ + 1]
              /\ nextId' = nextId + 1
              /\ log' = [log EXCEPT ![c] =
                            <<Call("Create", o.err = "nil")>> \o
                            (IF o.auth THEN <<Call("Auth", o.err = "nil")>>
                                       ELSE <<>>)]
              /\ sess' = [sess EXCEPT ![c] =
                             IF o.client
                             THEN [id |-> 1,
                                   state |-> IF o.released THEN "released"
                                                           ELSE "open"]
                             ELSE NoSession]
              /\ IF o.err # "nil"
                 THEN Fail(c, o.err, "return")
                 ELSE /\ apc' = [apc EXCEPT ![c] = "mail"]
                      /\ UNCHANGED aerr
    /\ UNCHANGED wire
    /\ UNCHANGED <<attemptFrame, sendVars, retryVars>>

\* if e.smtp == nil {...}; smtpClient, err := e.smtp.Create(e.SmtpParams)
AttemptCreate(c) ==
    /\ pc[c] = "attempt"
    /\ apc[c] = "create"
    /\ IF ~emailObj.smtp
       THEN /\ Fail(c, "no smtp client", "return")
            /\ UNCHANGED <<log, sess, creates, nextId>>
       ELSE \E o \in Create(emailObj) :
              /\ creates' = [creates EXCEPT ![c] = @ + 1]
              /\ nextId' = nextId + 1
              /\ log' = [log EXCEPT ![c] =
                            <<Call("Create", o.err = "nil")>> \o
                            (IF o.auth THEN <<Call("Auth", o.err = "nil")>>
                                       ELSE <<>>)]
              /\ sess' = [sess EXCEPT ![c] =
                             IF o.client
                             THEN [id |-> nextId,
                                   state |-> IF o.released THEN "released"
                                                           ELSE "open"]
                             ELSE NoSession]
              /\ IF o.err # "nil"
                 THEN Fail(c, o.err, "return")
                 ELSE /\ apc' = [apc EXCEPT ![c] = "mail"]
                      /\ UNCHANGED aerr
    /\ UNCHANGED wire
    /\ UNCHANGED <<attemptFrame, sendVars, retryVars>>

\* a variant of AttemptMail that goes on to Rcpt after a failed Mail
AttemptMail_Continue(c) ==
    /\ pc[c] = "attempt"
    /\ apc[c] = "mail"
    /\ \E ok \in BOOLEAN :
         /\ log' = [log EXCEPT ![c] = Append(@, Call("Mail", ok))]
         /\ wire' = [wire EXCEPT ![c].froms = @ \cup {emailMessage(c).from}]
         /\ IF ok
            THEN /\ apc' = [apc EXCEPT ![c] = "rcpt"]
                 /\ UNCHANGED aerr
            ELSE Fail(c, "mail", "rcpt")
    /\ UNCHANGED <<sess, creates, nextId>>
    /\ UNCHANGED <<attemptFrame, sendVars, retryVars>>

\* if err := smtpClient.Mail(m.from); err != nil { return ... }
AttemptMail(c) ==
    /\ pc[c] = "attempt"
    /\ apc[c] = "mail"
    /\ \E ok \in BOOLEAN :
         /\ log' = [log EXCEPT ![c] = Append(@, Call("Mail", ok))]
         /\ wire' = [wire EXCEPT ![c].froms = @ \cup {emailMessage(c).from}]
         /\ IF ok
            THEN /\ apc' = [apc EXCEPT ![c] = "rcpt"]
                 /\ UNCHANGED aerr
            ELSE Fail(c, "mail", "quit")
    /\ UNCHANGED <<sess, creates, nextId>>
    /\ UNCHANGED <<attemptFrame, sendVars, retryVars>>

\* if err := smtpClient.Rcpt(m.to); err != nil { return ... }
AttemptRcpt(c) ==
    /\ pc[c] = "attempt"
    /\ apc[c] = "rcpt"
    /\ \E ok \in BOOLEAN :
         /\ log' = [log EXCEPT ![c] = Append(@, Call("Rcpt", ok))]
         /\ wire' = [wire EXCEPT ![c].rcpts = @ \cup {emailMessage(c).to}]
         /\ IF ok
            THEN /\ apc' = [apc EXCEPT ![c] = "data"]
                 /\ UNCHANGED aerr
            ELSE Fail(c, "rcpt", "quit")
    /\ UNCHANGED <<sess, creates, nextId>>
    /\ UNCHANGED <<attemptFrame, sendVars, retryVars>>

\* writer, err := smtpClient.Data(); if err != nil { return ... }
AttemptData(c) ==
    /\ pc[c] = "attempt"
    /\ apc[c] = "data"
    /\ \E ok \in BOOLEAN :
         /\ log' = [log EXCEPT ![c] = Append(@, Call("Data", ok))]
         /\ IF ok
            THEN /\ apc' = [apc EXCEPT ![c] = "write"]
                 /\ UNCHANGED aerr
            ELSE Fail(c, "data", "quit")
    /\ UNCHANGED <<sess, creates, wire, nextId>>
    /\ UNCHANGED <<attemptFrame, sendVars, retryVars>>

\* mutant of AttemptWrite: a failed body write is not returned
AttemptWrite_Swallow(c) ==
    /\ pc[c] = "attempt"
    /\ apc[c] = "write"
    /\ \E ok \in BOOLEAN :
         /\ log' = [log EXCEPT ![c] = Append(@, Call("Write", ok))]
         /\ wire' = [wire EXCEPT ![c].bodies =
                        @ \cup {emailMessage(c).message}]
    /\ apc' = [apc EXCEPT ![c] = "wclose"]
    /\ aerr' = [aerr EXCEPT ![c] = Nil]
    /\ UNCHANGED <<sess, creates, nextId>>
    /\ UNCHANGED <<attemptFrame, sendVars, retryVars>>

\* if _, err = buf.WriteTo(writer); err != nil { return ... }; return nil
AttemptWrite(c) ==
    /\ pc[c] = "attempt"
    /\ apc[c] = "write"
    /\ \E ok \in BOOLEAN :
         /\ log' = [log EXCEPT ![c] = Append(@, Call("Write", ok))]
         /\ wire' = [wire EXCEPT ![c].bodies =
                        @ \cup {emailMessage(c).message}]
         /\ IF ok
            THEN /\ apc' = [apc EXCEPT ![c] = "wclose"]
                 /\ aerr' = [aerr EXCEPT ![c] = Nil]
            ELSE Fail(c, "write", "wclose")
    /\ UNCHANGED <<sess, creates, nextId>>
    /\ UNCHANGED <<attemptFrame, sendVars, retryVars>>

\* a variant of AttemptWriterClose whose failure becomes the attempt's error
AttemptWriterClose_Escalate(c) ==
    /\ pc[c] = "attempt"
    /\ apc[c] = "wclose"
    /\ \E ok \in BOOLEAN :
         /\ log' = [log EXCEPT ![c] = Append(@, Call("WriterClose", ok))]
         /\ aerr' = [aerr EXCEPT ![c] =
                        IF ok THEN @
                        ELSE ErrAttempt("writer close", attempts[c])]
    /\ apc' = [apc EXCEPT ![c] = "quit"]
    /\ UNCHANGED <<sess, creates, wire, nextId>>
    /\ UNCHANGED <<attemptFrame, sendVars, retryVars>>

\* deferred: if err = writer.Close(); err != nil { log }; the result of
\* sendMessage is unnamed, so the assignment to err does not change it
AttemptWriterClose(c) ==
    /\ pc[c] = "attempt"
    /\ apc[c] = "wclose"
    /\ \E ok \in BOOLEAN :
         log' = [log EXCEPT ![c] = Append(@, Call("WriterClose", ok))]
    /\ apc' = [apc EXCEPT ![c] = "quit"]
    /\ UNCHANGED <<aerr, sess, creates, wire, nextId>>
    /\ UNCHANGED <<attemptFrame, sendVars, retryVars>>

\* mutant of AttemptQuit: a failed Quit becomes the attempt's error
AttemptQuit_Escalate(c) ==
    /\ pc[c] = "attempt"
    /\ apc[c] = "quit"
    /\ \E ok \in BOOLEAN :
         /\ log' = [log EXCEPT ![c] = Append(@, Call("Quit", ok))]
         /\ apc' = [apc EXCEPT ![c] = IF ok THEN "return" ELSE "close"]
         /\ sess' = [sess EXCEPT ![c].state = IF ok THEN "released" ELSE @]
         /\ aerr' = [aerr EXCEPT ![c] =
                        IF ok THEN @ ELSE ErrAttempt("quit", attempts[c])]
    /\ UNCHANGED <<creates, wire, nextId>>
    /\ UNCHANGED <<attemptFrame, sendVars, retryVars>>

\* a variant of AttemptQuit without the fallback to Close
AttemptQuit_NoClose(c) ==
    /\ pc[c] = "attempt"
    /\ apc[c] = "quit"
    /\ \E ok \in BOOLEAN :
         /\ log' = [log EXCEPT ![c] = Append(@, Call("Quit", ok))]
         /\ apc' = [apc EXCEPT ![c] = "return"]
         /\ sess' = [sess EXCEPT ![c].state = IF ok THEN "released" ELSE @]
    /\ UNCHANGED <<aerr, creates, wire, nextId>>
    /\ UNCHANGED <<attemptFrame, sendVars, retryVars>>

\* deferred: if err := smtpClient.Quit(); err != nil { log; Close }
AttemptQuit(c) ==
    /\ pc[c] = "attempt"
    /\ apc[c] = "quit"
    /\ \E ok \in BOOLEAN :
         /\ log' = [log EXCEPT ![c] = Append(@, Call("Quit", ok))]
         /\ apc' = [apc EXCEPT ![c] = IF ok THEN "return" ELSE "close"]
         /\ sess' = [sess EXCEPT ![c].state = IF ok THEN "released" ELSE @]
    /\ UNCHANGED <<aerr, creates, wire, nextId>>
    /\ UNCHANGED <<attemptFrame, sendVars, retryVars>>

\* a variant of AttemptClose that never returns
AttemptClose_Stuck(c) ==
    /\ pc[c] = "attempt"
    /\ apc[c] = "close"
    /\ UNCHANGED vars

\* deferred: if err := smtpClient.Close(); err != nil { log }
AttemptClose(c) ==
    /\ pc[c] = "attempt"
    /\ apc[c] = "close"
    /\ \E ok \in BOOLEAN :
         log' = [log EXCEPT ![c] = Append(@, Call("Close", ok))]
    /\ apc' = [apc EXCEPT ![c] = "return"]
    /\ sess' = [sess EXCEPT ![c].state = "released"]
    /\ UNCHANGED <<aerr, creates, wire, nextId>>
    /\ UNCHANGED <<attemptFrame, sendVars, retryVars>>

\* ------------------------------------------------------------ the system
Next ==
    \E c \in Calls :
        \/ Cancel(c)
        \/ SendCheck(c)
        \/ SendBuild(c)
        \/ DoStart(c)
        \/ DoTick(c)
        \/ DoCtxDone(c)
        \/ DoChClosed(c)
        \/ DoAfterFun(c)
        \/ TickerDelay(c)
        \/ TickerCancel(c)
        \/ AttemptCreate(c)
        \/ AttemptMail(c)
        \/ AttemptRcpt(c)
        \/ AttemptData(c)
        \/ AttemptWrite(c)
        \/ AttemptWriterClose(c)
        \/ AttemptQuit(c)
        \/ AttemptClose(c)

Spec == Init /\ [][Next]_vars

\* ------------------------------------------------- two concurrent calls
\* call 1 sends a reply to a@x, call 2 a verification to b@x, over TLS and
\* with authentication
ConcRequests ==
    { [c \in Calls |-> IF c = 1 THEN r1 ELSE IF c = 2 THEN r2 ELSE NoRequest] :
        r1 \in {r \in RequestsFor({"a@x"}) :
                   /\ r.Verification.Token = ""
                   /\ r.Comment.ID # ""
                   /\ r.parent.User.ID # r.Comment.User.ID
                   /\ ~r.ForAdmin},
        r2 \in {r \in RequestsFor({"b@x"}) :
                   /\ r.Verification.Token # ""
                   /\ r.Comment.ID = ""
                   /\ r.parent.User.ID = "u1"
                   /\ ~r.ForAdmin} }

InitConc ==
    /\ InitWith({1, 2}, ConcRequests)
    /\ emailObj.TLS
    /\ emailObj.Username # ""
    /\ \A c \in Calls : ~cancelled[c]

\* the protocol calls that failed in the attempts of call c so far: one
\* for each attempt that was retried, and those of the current attempt
Faults(c) ==
    (IF attempts[c] > 1 THEN attempts[c] - 1 ELSE 0)
    + Cardinality({i \in 1..Len(log[c]) :
                     ~log[c][i].ok /\ log[c][i].op # "Auth"})

RECURSIVE SumFaults(_)
SumFaults(n) == IF n = 0 THEN 0 ELSE Faults(n) + SumFaults(n - 1)

FaultsBounded == SumFaults(NumCalls) <= MaxFaults

\* the steps of Next in which no more than MaxFaults protocol calls fail
NextConc ==
    \E c \in Calls :
        \/ Cancel(c)
        \/ SendCheck(c)
        \/ SendBuild(c)
        \/ DoStart(c)
        \/ DoTick(c) /\ FaultsBounded'
        \/ DoCtxDone(c)
        \/ DoChClosed(c)
        \/ DoAfterFun(c)
        \/ TickerDelay(c)
        \/ TickerCancel(c)
        \/ AttemptCreate(c) /\ FaultsBounded'
        \/ AttemptMail(c) /\ FaultsBounded'
        \/ AttemptRcpt(c) /\ FaultsBounded'
        \/ AttemptData(c) /\ FaultsBounded'
        \/ AttemptWrite(c) /\ FaultsBounded'
        \/ AttemptWriterClose(c) /\ FaultsBounded'
        \/ AttemptQuit(c) /\ FaultsBounded'
        \/ AttemptClose(c) /\ FaultsBounded'

SpecConc == InitConc /\ [][NextConc]_vars

TypeOK ==
    /\ emailObj \in EmailObjects
    /\ \A c \in Calls :
         /\ req[c] \in RequestsFor(Emails \cup ConcEmails)
         /\ pc[c] \in {"idle", "start", "build", "send", "select", "attempt",
                       "done"}
         /\ tpc[c] \in {"none", "offer", "delay", "closed"}
         /\ apc[c] \in {"none", "create", "mail", "rcpt", "data", "write",
                        "wclose", "quit", "close", "return"}
         /\ sess[c].state \in {"none", "open", "released"}

\* ------------------------------------------------------------- the claims
InSeq(x, s) == \E i \in 1..Len(s) : s[i] = x

Succeeded(c, op) == InSeq(Call(op, TRUE), log[c])

Failed(c, op) == InSeq(Call(op, FALSE), log[c])

\* Send of call c has returned having seen a live context at its check
Live(c) == ctxAtCall[c] = "live"

SelfReplyRequest(r) ==
    r.Comment.ID # "" /\ r.parent.User.ID = r.Comment.User.ID

BuildErrors ==
    {ErrBuild("verification template"), ErrBuild("unsubscribe token"),
     ErrBuild("reply template")}

\* C1: for a request whose recipient email is empty, Send returns nil,
\* calls Create zero times and invokes no builder (nor the token
\* generator), whatever the other fields of the request are and whether or
\* not the context is already cancelled.
C1_EmptyRecipientNoop ==
    \A c \in Calls :
        (pc[c] # "idle" /\ req[c].Email = "") =>
            /\ pc[c] \in {"start", "done"}
            /\ pc[c] = "done" => result[c] = Nil
            /\ creates[c] = 0
            /\ attempts[c] = 0
            /\ builds[c] = <<>>
            /\ tokenCalls[c] = 0

C1_Witness ==
    \E c \in Calls :
        /\ pc[c] = "done"
        /\ req[c].Email = ""
        /\ req[c].Verification.Token # ""
        /\ req[c].Comment.ID # ""
        /\ cancelled[c]
        /\ result[c] = Nil

\* C2 as stated: for every request with a comment ID whose author is the
\* parent's author and ForAdmin false, Send returns nil with zero Create
\* calls; with ForAdmin true the request proceeds to building and delivery.
C2_Original ==
    \A c \in Calls :
        (pc[c] = "done" /\ req[c].Email # "" /\ SelfReplyRequest(req[c])) =>
            IF ~req[c].ForAdmin
            THEN result[c] = Nil /\ creates[c] = 0
            ELSE InSeq("reply", builds[c]) /\ tpc[c] # "none"

\* C2 amended: for a request with a comment ID whose author is the
\* parent's author and ForAdmin false, Send never calls Create, never
\* invokes the reply builder and never enters the retry wrapper; it returns
\* nil, except that a context already cancelled at the initial check gives
\* the abort error and, when the request also carries a verification
\* token, a failure to build the verification message is returned.  With
\* ForAdmin true and a context live at the initial check the request is not
\* suppressed: unless the verification build fails the reply builder is
\* invoked, and unless a builder fails the retry wrapper is entered.
C2_SelfReplySuppressed ==
    \A c \in Calls :
        (pc[c] # "idle" /\ req[c].Email # "" /\ SelfReplyRequest(req[c])) =>
            IF ~req[c].ForAdmin
            THEN /\ creates[c] = 0
                 /\ attempts[c] = 0
                 /\ tpc[c] = "none"
                 /\ ~InSeq("reply", builds[c])
                 /\ pc[c] \in {"start", "build", "done"}
                 /\ pc[c] = "done" =>
                      \/ Live(c) /\ result[c] = Nil
                      \/ ~Live(c) /\ result[c] = ErrAborted
                      \/ /\ Live(c)
                         /\ req[c].Verification.Token # ""
                         /\ result[c] = ErrBuild("verification template")
            ELSE (pc[c] = "done" /\ Live(c)) =>
                   /\ \/ InSeq("reply", builds[c])
                      \/ result[c] = ErrBuild("verification template")
                   /\ result[c] \notin BuildErrors => tpc[c] # "none"

C2_Witness ==
    \E c \in Calls :
        /\ pc[c] = "done"
        /\ Live(c)
        /\ SelfReplyRequest(req[c])
        /\ ~req[c].ForAdmin
        /\ req[c].Verification.Token = ""
        /\ result[c] = Nil
        /\ creates[c] = 0

\* C3: when the context is already cancelled at the initial check of a
\* Send with a non-empty recipient, Send has returned the abort error, no
\* builder ran, the retry wrapper was never entered, no attempt was started
\* and Create was never called.
C3_PreCancelledNoIO ==
    \A c \in Calls :
        ctxAtCall[c] = "cancelled" =>
            /\ req[c].Email # ""
            /\ pc[c] = "done"
            /\ result[c] = ErrAborted
            /\ builds[c] = <<>>
            /\ tpc[c] = "none"
            /\ attempts[c] = 0
            /\ creates[c] = 0
            /\ sess[c] = NoSession
            /\ wire[c] = NoWire

C3_Witness ==
    \E c \in Calls :
        /\ ctxAtCall[c] = "cancelled"
        /\ req[c].Comment.ID # ""
        /\ pc[c] = "done"
        /\ result[c] = ErrAborted

\* C4: one Send starts at most 5 attempts (and calls Create at most 5
\* times); a delay of the tick source lies between any two consecutive
\* attempts; once an attempt has returned nil Send returns nil without
\* starting another attempt, so that a success at attempt k means exactly
\* k Create calls.
C4_BoundedRetry ==
    \A c \in Calls :
        /\ attempts[c] <= 5
        /\ creates[c] <= 5
        /\ attempts[c] >= 1 => ti[c] >= attempts[c] - 1
        /\ (apc[c] = "return" /\ aerr[c] = Nil) =>
              /\ pc[c] \in {"attempt", "done"}
              /\ pc[c] = "done" => succAt[c] = attempts[c]
        /\ succAt[c] # 0 =>
              /\ pc[c] = "done"
              /\ result[c] = Nil
              /\ attempts[c] = succAt[c]
              /\ creates[c] = succAt[c]

C4_Witness ==
    \E c \in Calls :
        /\ pc[c] = "done"
        /\ ~cancelled[c]
        /\ succAt[c] = 5
        /\ creates[c] = 5
        /\ ti[c] >= 4
        /\ result[c] = Nil

\* the last attempt of call c failed at one of its protocol steps
AttemptFailed(c) ==
    \E op \in TransportSteps : Failed(c, op)

\* C5: when Send has returned, the context was never cancelled and its
\* last attempt failed at any protocol step (Create, Auth, Mail, Rcpt,
\* Data or the body write), that attempt is the 5th and Send returns a
\* non-nil error, the one the 5th attempt produced for the step that
\* failed: no kind of transport failure ends the retries early.
C5_LastErrorReturned ==
    \A c \in Calls :
        (pc[c] = "done" /\ ~cancelled[c] /\ AttemptFailed(c)) =>
            /\ attempts[c] = 5
            /\ creates[c] = 5
            /\ result[c] # Nil
            /\ result[c] = aerr[c]
            /\ result[c].attempt = 5
            /\ \E op \in TransportSteps :
                  Failed(c, op) /\ result[c].kind \in StepKinds[op]

C5_Witness ==
    \E c \in Calls :
        /\ pc[c] = "done"
        /\ ~cancelled[c]
        /\ Failed(c, "Rcpt")
        /\ result[c] = ErrAttempt("rcpt", 5)

C7_SessionsReleased ==
    \A c \in Calls : apc[c] = "return" => sess[c].state # "open"

\* C8: for a request with a recipient but neither a verification token nor
\* a comment ID, Send never calls Create, writes nothing to a body writer
\* and, with a context that is never cancelled, returns nil.
C8_NothingToSend ==
    \A c \in Calls :
        (req[c].Email # "" /\ req[c].Verification.Token = ""
           /\ req[c].Comment.ID = "") =>
            /\ creates[c] = 0
            /\ wire[c].bodies = {}
            /\ (pc[c] = "done" /\ Live(c) /\ ~cancelled[c]) => result[c] = Nil

\* the message buildVerificationMessage renders for the request of call c
VerificationMessageOf(c) ==
    buildVerificationMessage(emailObj, req[c].Verification.User,
                             req[c].Email, req[c].Verification.Token,
                             req[c].Verification.SiteID, FALSE).msg

\* C9: for a request with a verification token (with or without a comment
\* ID) only the verification builder is invoked, the self-reply rule is not
\* applied (unless the build fails the retry wrapper is entered) and the
\* only message written to a body writer is the verification message.
C9_OneKindDrives ==
    \A c \in Calls :
        (req[c].Verification.Token # "" /\ Live(c)
           /\ pc[c] \notin {"start", "build"}) =>
            /\ builds[c] = <<"verification">>
            /\ tokenCalls[c] = 0
            /\ result[c] \notin BuildErrors => tpc[c] # "none"
            /\ wire[c].bodies \subseteq {VerificationMessageOf(c)}

\* C10: in an attempt whose body write succeeded, a failure of the writer's
\* Close, of Quit or of the fallback Close leaves the attempt's result nil;
\* Send then returns nil and that attempt is its last.
C10_CleanupNeverEscalates ==
    \A c \in Calls :
        Succeeded(c, "Write") =>
            /\ aerr[c] = Nil
            /\ pc[c] \in {"attempt", "done"}
            /\ pc[c] = "done" =>
                  /\ result[c] = Nil
                  /\ succAt[c] = attempts[c]
                  /\ creates[c] = attempts[c]

C10_Witness ==
    \E c \in Calls :
        /\ pc[c] = "done"
        /\ Succeeded(c, "Write")
        /\ Failed(c, "Quit")
        /\ Failed(c, "Close")
        /\ attempts[c] = 2
        /\ result[c] = Nil

\* the builder Send invoked last failed: a failed builder returns the
\* empty message
BuildFailed(c) ==
    pc[c] \notin {"idle", "start", "build"} /\ builds[c] # <<>>
        /\ msg[c] = EmptyMsg

\* C11: when a builder fails (the token generator or a template execution)
\* Send has returned that non-nil error, Create was never called, the retry
\* wrapper was never entered, and no builder was invoked twice.
C11_RenderErrorAborts ==
    \A c \in Calls :
        BuildFailed(c) =>
            /\ pc[c] = "done"
            /\ result[c] \in BuildErrors
            /\ result[c] # Nil
            /\ creates[c] = 0
            /\ attempts[c] = 0
            /\ tpc[c] = "none"
            /\ wire[c] = NoWire
            /\ tokenCalls[c] <= 1
            /\ \A i, j \in 1..Len(builds[c]) :
                  builds[c][i] = builds[c][j] => i = j

C11_Witness ==
    \E c \in Calls :
        /\ BuildFailed(c)
        /\ pc[c] = "done"
        /\ builds[c] = <<"reply">>
        /\ result[c] = ErrBuild("unsubscribe token")
        /\ creates[c] = 0

\* the message Send builds for the request of call c when no builder fails
OwnMessage(c) == buildStep(emailObj, req[c], FALSE, FALSE, FALSE).msg

\* the sessions of the calls are pairwise distinct, every protocol call of
\* an attempt follows the Create of that attempt, and what call c puts on
\* the wire is its own message, to its own recipient, from the shared From
OwnSessionOwnMessage ==
    \A c \in Calls :
        /\ \A d \in Calls \ {c} : sess[c].id # 0 => sess[c].id # sess[d].id
        /\ log[c] # <<>> => log[c][1].op = "Create"
        /\ (\E i \in 1..Len(log[c]) : log[c][i].op \in {"Mail", "Rcpt", "Data", "Write"}) =>
              sess[c].id # 0 /\ Succeeded(c, "Create")
        /\ wire[c].froms \subseteq {emailObj.From}
        /\ wire[c].rcpts \subseteq {req[c].Email}
        /\ wire[c].bodies \subseteq {OwnMessage(c)}
        /\ wire[c].bodies # {} => OwnMessage(c) # EmptyMsg

\* a step that gives call c a session gives it one that no call holds or
\* held in its previous attempt, by a Create of call c itself
FreshSession ==
    \A c \in Calls :
        (sess'[c] # sess[c] /\ sess'[c].id # 0 /\ sess'[c].id # sess[c].id) =>
            /\ creates'[c] = creates[c] + 1
            /\ \A d \in Calls : sess[d].id # sess'[c].id
            /\ \A d \in Calls \ {c} : sess'[d] = sess[d]

\* C12: in every interleaving of two Send calls on one Email object each
\* attempt uses a session of its own Create (none shared between calls or
\* reused across attempts), each call transmits only the message built from
\* its own request to its own recipient, and no step changes the shared
\* Email object or the requests.
C12_ConcurrentSendSafe ==
    /\ []OwnSessionOwnMessage
    /\ [][FreshSession]_vars
    /\ [][emailObj' = emailObj /\ req' = req]_vars

\* both calls are in an attempt with an open session, call 1 in its second
\* attempt, and both have written their body
C12_Witness ==
    /\ pc[1] = "attempt" /\ pc[2] = "attempt"
    /\ sess[1].state = "open" /\ sess[2].state = "open"
    /\ attempts[1] = 2
    /\ wire[1].bodies # {} /\ wire[2].bodies # {}
    /\ wire[1].bodies # wire[2].bodies

HeaderNames(m) == {m.headers[i][1] : i \in 1..Len(m.headers)}

HasHeader(m, h, v) == InSeq(<<h, v>>, m.headers)

\* the link buildReplyMessage gives a non-admin recipient of request r
UnsubscribeLinkOf(r) ==
    <<emailObj.UnsubscribeURL, "?site=", r.Comment.Locator.SiteID, "&tkn=",
      TokenGenFn(r.parent.User.ID, r.Email, r.Comment.Locator.SiteID)>>

\* the builder that rendered msg[c]
RenderedBy(c) ==
    IF msg[c] = EmptyMsg \/ builds[c] = <<>> THEN "none"
    ELSE builds[c][Len(builds[c])]

\* C13: every rendered reply for a non-admin recipient has both
\* List-Unsubscribe-Post and List-Unsubscribe, the latter with the link
\* <unsubscribeURL>?site=<siteID>&tkn=<token>, token being the token
\* generator's result for (parent author ID, recipient email, site ID);
\* every admin-targeted reply and every verification message has neither.
C13_UnsubscribeHeaders ==
    \A c \in Calls :
        /\ (RenderedBy(c) = "reply" /\ ~req[c].ForAdmin) =>
              /\ HasHeader(msg[c], "List-Unsubscribe-Post",
                           <<"List-Unsubscribe=One-Click">>)
              /\ HasHeader(msg[c], "List-Unsubscribe",
                           <<"<">> \o UnsubscribeLinkOf(req[c]) \o <<">">>)
        /\ (RenderedBy(c) = "reply" /\ req[c].ForAdmin) =>
              HeaderNames(msg[c]) \cap
                  {"List-Unsubscribe", "List-Unsubscribe-Post"} = {}
        /\ RenderedBy(c) = "verification" =>
              HeaderNames(msg[c]) \cap
                  {"List-Unsubscribe", "List-Unsubscribe-Post"} = {}
        /\ \A m \in wire[c].bodies : m = msg[c]

\* an admin-targeted reply without the headers has been written to the wire
C13_Witness ==
    \E c \in Calls :
        /\ RenderedBy(c) = "reply"
        /\ req[c].ForAdmin
        /\ "Subject" \in HeaderNames(msg[c])
        /\ "List-Unsubscribe" \notin HeaderNames(msg[c])
        /\ wire[c].bodies = {msg[c]}

\* the position of a protocol call in the order of sendMessage
Rank(op) ==
    CASE op = "Create" -> 1 [] op = "Auth" -> 2 [] op = "Mail" -> 3
      [] op = "Rcpt" -> 4 [] op = "Data" -> 5 [] op = "Write" -> 6
      [] op = "WriterClose" -> 7 [] op = "Quit" -> 8 [] op = "Close" -> 9

Issued(c, op) == Succeeded(c, op) \/ Failed(c, op)

\* the steps of the SMTP exchange, as opposed to the deferred cleanup
ProtocolSteps == {"Mail", "Rcpt", "Data", "Write"}

ForwardOnly(c) ==
    /\ \A i, j \in 1..Len(log[c]) :
          i < j => Rank(log[c][i].op) < Rank(log[c][j].op)
    /\ Issued(c, "Mail") => Succeeded(c, "Create")
    /\ Issued(c, "Rcpt") => Succeeded(c, "Mail")
    /\ Issued(c, "Data") => Succeeded(c, "Rcpt")
    /\ Issued(c, "Write") => Succeeded(c, "Data")
    /\ \A i, j \in 1..Len(log[c]) :
          (i < j /\ ~log[c][i].ok /\ log[c][i].op \in TransportSteps) =>
              log[c][j].op \notin ProtocolSteps

\* the attempt that has run its deferred functions returns the error of
\* the step that failed
FailureReturned(c) ==
    (pc[c] = "attempt" /\ apc[c] = "return") =>
        \A op \in TransportSteps :
            Failed(c, op) =>
                /\ aerr[c] # Nil
                /\ aerr[c].kind \in StepKinds[op]
                /\ aerr[c].attempt = attempts[c]

Count(c, op) == Cardinality({i \in 1..Len(log[c]) : log[c][i].op = op})

\* C15: in every attempt whose Create returned without error Quit is
\* called exactly once, after the body writer (if one was opened) has been
\* closed and after every other protocol call; Close is called iff that
\* Quit failed, at most once; the body writer is closed exactly once iff
\* Data succeeded, whether or not the body write succeeded.
C15_CleanupDiscipline ==
    \A c \in Calls :
        /\ Count(c, "Quit") <= 1
        /\ Count(c, "Close") <= 1
        /\ Count(c, "WriterClose") <= 1
        /\ Issued(c, "Close") => Failed(c, "Quit")
        /\ Issued(c, "WriterClose") => Succeeded(c, "Data")
        /\ (Issued(c, "Quit") /\ Succeeded(c, "Data")) =>
              Issued(c, "WriterClose")
        /\ \A i, j \in 1..Len(log[c]) :
              (log[c][i].op = "Quit" /\ i < j) => log[c][j].op = "Close"
        /\ (pc[c] = "attempt" /\ apc[c] = "return"
              /\ Succeeded(c, "Create")) =>
                /\ Count(c, "Quit") = 1
                /\ Issued(c, "Close") <=> Failed(c, "Quit")
                /\ Issued(c, "WriterClose") <=> Succeeded(c, "Data")

\* an attempt whose body write failed has closed the writer, failed to
\* quit and closed the session
C15_Witness ==
    \E c \in Calls :
        /\ pc[c] = "attempt" /\ apc[c] = "return"
        /\ Succeeded(c, "Create")
        /\ Failed(c, "Write")
        /\ Count(c, "WriterClose") = 1
        /\ Failed(c, "Quit")
        /\ Count(c, "Close") = 1

\* C16: a call that has started a delivery attempt has built its message
\* exactly once, before the first attempt, and every attempt declares the
\* configured From, the request's email and writes that one message.
C16_BuiltOnceSentUnchanged ==
    \A c \in Calls :
        attempts[c] >= 1 =>
            /\ Len(builds[c]) = 1
            /\ msg[c] # EmptyMsg
            /\ wire[c].froms \subseteq {emailObj.From}
            /\ wire[c].rcpts \subseteq {req[c].Email}
            /\ wire[c].bodies \subseteq {msg[c]}

\* C17: the token generator is invoked only for the unsubscribe link of a
\* reply: never for a request without a comment ID, with an empty recipient,
\* made with a cancelled context or suppressed as a self-reply, and not for
\* an admin-targeted reply, whose Send therefore never fails with the token
\* generator's error.
C17_TokenOnlyForLink ==
    \A c \in Calls :
        /\ tokenCalls[c] > 0 => InSeq("reply", builds[c])
        /\ (\/ req[c].Comment.ID = ""
            \/ req[c].Email = ""
            \/ ctxAtCall[c] = "cancelled"
            \/ SelfReplyRequest(req[c]) /\ ~req[c].ForAdmin) =>
                tokenCalls[c] = 0
        /\ req[c].ForAdmin =>
              /\ tokenCalls[c] = 0
              /\ result[c] # ErrBuild("unsubscribe token")

WriterCloseFailed(c) == Succeeded(c, "Write") /\ Failed(c, "WriterClose")

\* C19: when closing the body writer fails after a successful body write
\* the attempt still returns nil, Quit is issued after the failed close, and
\* the retry wrapper returns nil without a further attempt.
C19_WriterCloseOnlyLogged ==
    /\ [](\A c \in Calls :
            WriterCloseFailed(c) =>
                /\ aerr[c] = Nil
                /\ apc[c] \in {"close", "return"} => Issued(c, "Quit")
                /\ pc[c] \in {"attempt", "done"}
                /\ pc[c] = "done" =>
                      result[c] = Nil /\ succAt[c] = attempts[c])
    /\ [][\A c \in Calls :
            WriterCloseFailed(c) =>
                /\ attempts'[c] = attempts[c]
                /\ creates'[c] = creates[c]
                /\ pc'[c] \in {"attempt", "done"}]_vars

\* Send has returned nil from a second attempt in which closing the writer
\* failed and Quit followed
C19_Witness ==
    \E c \in Calls :
        /\ WriterCloseFailed(c)
        /\ Issued(c, "Quit")
        /\ pc[c] = "done"
        /\ result[c] = Nil
        /\ attempts[c] = 2
        /\ succAt[c] = 2

\* ------------------------------------------------------------ termination
\* the steps of the thread that runs Send for call c
SendStep(c) ==
    \/ SendCheck(c)
    \/ SendBuild(c)
    \/ DoStart(c)
    \/ DoTick(c)
    \/ DoCtxDone(c)
    \/ DoChClosed(c)
    \/ DoAfterFun(c)
    \/ AttemptCreate(c)
    \/ AttemptMail(c)
    \/ AttemptRcpt(c)
    \/ AttemptData(c)
    \/ AttemptWrite(c)
    \/ AttemptWriterClose(c)
    \/ AttemptQuit(c)
    \/ AttemptClose(c)

\* the steps of the tick source of call c
TickerStep(c) == TickerDelay(c) \/ TickerCancel(c)

\* one call on an Email object that uses TLS and authentication
InitLive ==
    /\ Init
    /\ emailObj.TLS
    /\ emailObj.Username # ""

\* every builder call and protocol call returns and the delay timer fires;
\* nothing is assumed about cancellation
SpecLive ==
    /\ InitLive
    /\ [][Next]_vars
    /\ \A c \in Calls : WF_vars(SendStep(c)) /\ WF_vars(TickerStep(c))

\* C20: every Send call that is made eventually returns, for every request
\* and every pattern of attempt failures and cancellation, after at most 5
\* attempts.
C20_SendTerminates ==
    /\ \A c \in Calls : pc[c] = "start" ~> pc[c] = "done"
    /\ [](\A c \in Calls : attempts[c] <= 5)

\* Send has returned the error of its fifth attempt, never cancelled
C20_Witness ==
    \E c \in Calls :
        /\ pc[c] = "done"
        /\ ~cancelled[c]
        /\ attempts[c] = 5
        /\ result[c] = ErrAttempt("data", 5)
====
